---------------------------- MODULE Spec2Model ----------------------------
(***************************************************************************)
(* Static replication of decompounded CMS payoffs with IRR-settled         *)
(* swaptions under a SABR smile ("QF 605 Part 4 Final" notebook).          *)
(*                                                                         *)
(* Python floats are modelled as binary floating-point numbers <<m, e>>    *)
(* (value m * 2^e) with a Prec-bit significand and round-to-nearest after  *)
(* every operation; the exponent is unbounded.  numpy / scipy library      *)
(* functions (log, sqrt, pow, norm.cdf, quad) are modelled by numerical    *)
(* routines over the same numbers.                                         *)
(*                                                                         *)
(* Every Python function is translated to the expression it returns: a     *)
(* term whose leaves are the floats passed in and whose nodes are Python's *)
(* arithmetic operators and the calls it makes.  Ev evaluates a term in    *)
(* Python's order; CallLog lists the calls it makes with their arguments.  *)
(***************************************************************************)
EXTENDS Integers, Sequences, FiniteSets, TLC

(***************************************************************************)
(* Floating-point layer                                                    *)
(***************************************************************************)
\* bits of significand of the modelled float format
Prec == 14

\* number of spare bits used when aligning operands: |m| * 2^Guard < 2^30
Guard == 30 - Prec

Zero == <<0, 0>>

AbsI(n) == IF n < 0 THEN -n ELSE n

SgnI(n) == IF n < 0 THEN -1 ELSE IF n > 0 THEN 1 ELSE 0

\* the number of bits of n, 0 <= n < 2^30
BitLen(n) == CHOOSE len \in 0..30 : n < 2^len /\ (len = 0 \/ n >= 2^(len - 1))

\* rounding of s * q * 2^e once q has at most Prec + 1 bits
NormRound(s, q, e) ==
  IF q = 2^Prec THEN <<s * 2^(Prec - 1), e + 1>> ELSE <<s * q, e>>

\* s * a * 2^e where a > 0 has len bits
NormBits(s, a, e, len) ==
  IF len <= Prec
  THEN <<s * a * 2^(Prec - len), e - (Prec - len)>>
  ELSE NormRound(s, (a + 2^(len - Prec - 1)) \div 2^(len - Prec), e + (len - Prec))

\* the float nearest to m * 2^e (ties away from zero)
Norm(m, e) ==
  IF m = 0 THEN Zero ELSE NormBits(SgnI(m), AbsI(m), e, BitLen(AbsI(m)))

FromInt(n) == Norm(n, 0)

One == FromInt(1)

Two == FromInt(2)

Neg(x) == <<-x[1], x[2]>>

Abs(x) == <<AbsI(x[1]), x[2]>>

Mul(x, y) == Norm(x[1] * y[1], x[2] + y[2])

\* x / y for y # 0
Div(x, y) ==
  Norm(SgnI(x[1]) * SgnI(y[1]) * ((AbsI(x[1]) * 2^Guard) \div AbsI(y[1])),
       x[2] - y[2] - Guard)

\* hi + lo for non-zero operands with hi[2] >= lo[2]
AddAligned(hi, lo) ==
  IF hi[2] - lo[2] >= Guard THEN hi
  ELSE Norm(hi[1] * 2^(hi[2] - lo[2]) + lo[1], lo[2])

Add(x, y) ==
  IF x[1] = 0 THEN y
  ELSE IF y[1] = 0 THEN x
  ELSE IF x[2] >= y[2] THEN AddAligned(x, y) ELSE AddAligned(y, x)

Sub(x, y) == Add(x, Neg(y))

Lt(x, y) == Sub(x, y)[1] < 0

Le(x, y) == ~Lt(y, x)

IsPos(x) == x[1] > 0

\* the decimal literal n/d
Rat(n, d) == Div(FromInt(n), FromInt(d))

Sq(x) == Mul(x, x)

\* x ** n for an integer n >= 0
RECURSIVE PowInt(_, _)
PowInt(x, n) ==
  IF n = 0 THEN One
  ELSE IF n % 2 = 0 THEN Sq(PowInt(x, n \div 2))
  ELSE Mul(x, PowInt(x, n - 1))

\* the integer nearest to x (|x| < 2^Guard)
RoundInt(x) ==
  IF x[2] >= 0 THEN x[1] * 2^(x[2])
  ELSE IF -x[2] > Prec + 1 THEN 0
  ELSE SgnI(x[1]) * ((AbsI(x[1]) + 2^(-x[2] - 1)) \div 2^(-x[2]))

\* one Newton step towards the square root of n
Newton(n, y) == (y + n \div y) \div 2

\* the integer square root of n from an estimate y within 1 of it
ISqrtNear(n, y) ==
  IF y * y > n THEN y - 1 ELSE IF (y + 1) * (y + 1) <= n THEN y + 1 ELSE y

\* the integer square root of n, 2^26 <= n < 2^30
ISqrt(n) ==
  ISqrtNear(n, Newton(n, Newton(n, Newton(n, Newton(n, Newton(n, Newton(n, 2^14)))))))

\* sqrt(x) with the significand shifted left by sh bits first
SqrtShift(x, sh) == Norm(ISqrt(x[1] * 2^sh), (x[2] - sh) \div 2)

\* np.sqrt(x), x ** 0.5 for x >= 0
Sqrt(x) ==
  IF x[1] = 0 THEN Zero
  ELSE SqrtShift(x, IF (x[2] - (Guard - 2)) % 2 = 0 THEN Guard - 2 ELSE Guard - 1)

Ln2 == Rat(693147, 1000000)

Third == Rat(1, 3)

Fifth == Rat(1, 5)

Seventh == Rat(1, 7)

\* 1 + u/3 + u^2/5 + u^3/7
AtanhPoly(u) == Add(One, Mul(u, Add(Third, Mul(u, Add(Fifth, Mul(u, Seventh))))))

\* atanh t = t (1 + t^2/3 + t^4/5 + t^6/7)
AtanhSeries(t) == Mul(t, AtanhPoly(Sq(t)))

\* ln f = 2 atanh((f-1)/(f+1)) for f in [1/sqrt 2, sqrt 2)
LogNear1(f) == Mul(Two, AtanhSeries(Div(Sub(f, One), Add(f, One))))

\* ln x for x = f * 2^k
LogScaled(x, k) == Add(Mul(FromInt(k), Ln2), LogNear1(<<x[1], x[2] - k>>))

\* np.log(x) for x > 0: x = f * 2^k with f in [1/sqrt 2, sqrt 2)
Log(x) ==
  LogScaled(x, IF x[1] * x[1] > 2^(2 * Prec - 1) THEN x[2] + Prec ELSE x[2] + Prec - 1)

Half == Rat(1, 2)

Sixth == Rat(1, 6)

Inv24 == Rat(1, 24)

Inv120 == Rat(1, 120)

Inv720 == Rat(1, 720)

\* the Taylor series of exp r to r^6
ExpSeries(r) ==
  Add(One, Mul(r, Add(One, Mul(r, Add(Half, Mul(r, Add(Sixth,
      Mul(r, Add(Inv24, Mul(r, Add(Inv120, Mul(r, Inv720))))))))))))

\* s * 2^k
Scale(s, k) == <<s[1], s[2] + k>>

\* exp v for v = k ln 2 + r
ExpScaled(v, k) == Scale(ExpSeries(Sub(v, Mul(FromInt(k), Ln2))), k)

\* exp(v): v = k ln 2 + r, |r| <= (ln 2)/2
Exp(v) == ExpScaled(v, RoundInt(Div(v, Ln2)))

\* x ** y for x > 0 and a float exponent y (libm pow; pow(x, 0.5) is the
\* correctly rounded square root)
Pow(x, y) == IF y = Half THEN Sqrt(x) ELSE Exp(Mul(y, Log(x)))

TailP == Rat(33267, 100000)

TailA1 == Rat(4361836, 10000000)

TailA2 == Rat(-1201676, 10000000)

TailA3 == Rat(9372980, 10000000)

InvSqrt2Pi == Rat(3989423, 10000000)

\* a1 t + a2 t^2 + a3 t^3
TailPoly(t) == Mul(t, Add(TailA1, Mul(t, Add(TailA2, Mul(t, TailA3)))))

\* the standard normal density
NormPdf(x) == Mul(InvSqrt2Pi, Exp(Neg(Div(Sq(x), Two))))

\* upper tail Q(x) = 1 - Phi(x) of the standard normal for x >= 0
\* (Abramowitz & Stegun 26.2.16)
NormTail(x) == Mul(NormPdf(x), TailPoly(Div(One, Add(One, Mul(TailP, x)))))

\* Phi(x) from the tail q = Q(|x|)
CdfFromTail(x, q) == IF x[1] >= 0 THEN Sub(One, q) ELSE q

\* scipy.stats.norm.cdf
NormCdf(x) == CdfFromTail(x, NormTail(Abs(x)))

(***************************************************************************)
(* Python expressions                                                      *)
(***************************************************************************)
\* a float value
V(x) == <<"c", x>>

\* an integer used in float arithmetic
I(n) == <<"c", FromInt(n)>>

\* the float literal n/d
Lit(n, d) == <<"c", Rat(n, d)>>

Plus(a, b) == <<"+", a, b>>

Minus(a, b) == <<"-", a, b>>

Times(a, b) == <<"*", a, b>>

Over(a, b) == <<"/", a, b>>

\* a ** n, n an int
PowerI(a, n) == <<"**i", a, n>>

\* a ** b, b a float
Power(a, b) == <<"**", a, b>>

NegT(a) == <<"neg", a>>

NpLog(a) == <<"log", a>>

NpSqrt(a) == <<"sqrt", a>>

NormCdfT(a) == <<"cdf", a>>

\* the call name(args), returning the value of body
Fn(name, args, body) == <<"call", name, args, body>>

RECURSIVE Ev(_)
Ev(t) ==
  CASE t[1] = "c" -> t[2]
    [] t[1] = "call" -> Ev(t[4])
    [] t[1] = "+" -> Add(Ev(t[2]), Ev(t[3]))
    [] t[1] = "-" -> Sub(Ev(t[2]), Ev(t[3]))
    [] t[1] = "*" -> Mul(Ev(t[2]), Ev(t[3]))
    [] t[1] = "/" -> Div(Ev(t[2]), Ev(t[3]))
    [] t[1] = "**i" -> PowInt(Ev(t[2]), t[3])
    [] t[1] = "**" -> Pow(Ev(t[2]), Ev(t[3]))
    [] t[1] = "neg" -> Neg(Ev(t[2]))
    [] t[1] = "log" -> Log(Ev(t[2]))
    [] t[1] = "sqrt" -> Sqrt(Ev(t[2]))
    [] t[1] = "cdf" -> NormCdf(Ev(t[2]))

(***************************************************************************)
(* IRR functions                                                           *)
(***************************************************************************)
\* 1/K * ( 1.0 - 1/(1 + K/m)**(N*m) )
IRR_0(K, m, N) ==
  Fn("IRR_0", <<K, m, N>>,
     Times(Over(I(1), V(K)),
           Minus(I(1), Over(I(1), PowerI(Plus(I(1), Over(V(K), I(m))), N * m)))))

\* -1/K*IRR_0(K, m, N) + 1/(K*m)*N*m/(1+K/m)**(N*m+1)
IRR_1(K, m, N) ==
  Fn("IRR_1", <<K, m, N>>,
     Plus(Times(Over(I(-1), V(K)), IRR_0(K, m, N)),
          Over(Times(Times(Over(I(1), Times(V(K), I(m))), I(N)), I(m)),
               PowerI(Plus(I(1), Over(V(K), I(m))), N * m + 1))))

\* -2/K*IRR_1(K, m, N) - 1/(K*m*m)*(N*m)*(N*m+1)/(1+K/m)**(N*m+2)
IRR_2(K, m, N) ==
  Fn("IRR_2", <<K, m, N>>,
     Minus(Times(Over(I(-2), V(K)), IRR_1(K, m, N)),
           Over(Times(Times(Over(I(1), Times(Times(V(K), I(m)), I(m))), I(N * m)),
                      I(N * m + 1)),
                PowerI(Plus(I(1), Over(V(K), I(m))), N * m + 2))))

(***************************************************************************)
(* Payoff g(K) = K^(1/4) - 0.04^(1/2) and its derivatives                  *)
(***************************************************************************)
\* K**(1/4) - 0.04**(1/2)
g_0(K) ==
  Fn("g_0", <<K>>,
     Minus(Power(V(K), Over(I(1), I(4))), Power(Lit(4, 100), Over(I(1), I(2)))))

\* the first derivative with the exponent of g itself
g_1_exponent(K) ==
  Fn("g_1", <<K>>, Times(Over(I(1), I(4)), Power(V(K), Over(I(1), I(4)))))

\* (1/4) * K**(-3/4)
g_1(K) ==
  Fn("g_1", <<K>>, Times(Over(I(1), I(4)), Power(V(K), Over(I(-3), I(4)))))

\* (-3/16) * K**(-7/4)
g_2(K) ==
  Fn("g_2", <<K>>, Times(Over(I(-3), I(16)), Power(V(K), Over(I(-7), I(4)))))

(***************************************************************************)
(* Replication weights h = g / IRR and derivatives                         *)
(***************************************************************************)
\* g_0(K) / IRR_0(K, m, N)
h_0(K, m, N) == Fn("h_0", <<K, m, N>>, Over(g_0(K), IRR_0(K, m, N)))

\* (IRR_0(K, m, N)*g_1(K) - g_0(K)*IRR_1(K, m, N)) / IRR_0(K, m, N)**2
h_1(K, m, N) ==
  Fn("h_1", <<K, m, N>>,
     Over(Minus(Times(IRR_0(K, m, N), g_1(K)), Times(g_0(K), IRR_1(K, m, N))),
          PowerI(IRR_0(K, m, N), 2)))

\* ((IRR_0*g_2 - IRR_2*g_0 - 2.0*IRR_1*g_1)/IRR_0**2 + 2.0*IRR_1**2*g_0/IRR_0**3)
h_2(K, m, N) ==
  Fn("h_2", <<K, m, N>>,
     Plus(Over(Minus(Minus(Times(IRR_0(K, m, N), g_2(K)), Times(IRR_2(K, m, N), g_0(K))),
                     Times(Times(I(2), IRR_1(K, m, N)), g_1(K))),
               PowerI(IRR_0(K, m, N), 2)),
          Over(Times(Times(I(2), PowerI(IRR_1(K, m, N), 2)), g_0(K)),
               PowerI(IRR_0(K, m, N), 3))))

(***************************************************************************)
(* SABR implied volatility                                                 *)
(***************************************************************************)
\* the literal 1e-12
Eps == Div(One, Mul(FromInt(1000000), FromInt(1000000)))

\* the branch test as an exact comparison
IsATM_exact(F, K) == F = K

\* abs(F - K) < 1e-12
IsATM(F, K) == Lt(Abs(Sub(F, K)), Eps)

\* the branch SABR takes
SABRBranch(F, K) == IF IsATM(F, K) THEN "atm" ELSE "general"

\* numer3 = ((2 - 3*rho*rho)/24)*nu*nu, the same in both branches
SABR_numer3(rho, nu) ==
  Times(Times(Over(Minus(I(2), Times(Times(I(3), V(rho)), V(rho))), I(24)), V(nu)), V(nu))

\* the at-the-money branch: VolAtm
SABR_atm(F, T, alpha, beta, rho, nu) ==
  LET numer1 == Over(Times(Times(Over(PowerI(Minus(I(1), V(beta)), 2), I(24)), V(alpha)),
                           V(alpha)),
                     Power(V(F), Minus(I(2), Times(I(2), V(beta)))))
      numer2 == Over(Times(Times(Times(Times(Lit(25, 100), V(rho)), V(beta)), V(nu)),
                           V(alpha)),
                     Power(V(F), Minus(I(1), V(beta))))
      numer3 == SABR_numer3(rho, nu)
  IN Over(Times(V(alpha), Plus(I(1), Times(Plus(Plus(numer1, numer2), numer3), I(T)))),
          Power(V(F), Minus(I(1), V(beta))))

\* z = (nu/alpha)*((F*X)**(0.5*(1-beta)))*np.log(F/X)
SABR_z(F, X, alpha, beta, nu) ==
  Times(Times(Over(V(nu), V(alpha)),
              Power(Times(V(F), V(X)), Times(Lit(5, 10), Minus(I(1), V(beta))))),
        NpLog(Over(V(F), V(X))))

\* zhi = np.log((((1 - 2*rho*z + z*z)**0.5) + z - rho)/(1 - rho))
SABR_zhi(z, rho) ==
  NpLog(Over(Minus(Plus(Power(Plus(Minus(I(1), Times(Times(I(2), V(rho)), z)),
                                   Times(z, z)),
                              Lit(5, 10)),
                        z),
                   V(rho)),
             Minus(I(1), V(rho))))

\* the general branch: numer/denom
SABR_general(F, X, T, alpha, beta, rho, nu) ==
  LET z == SABR_z(F, X, alpha, beta, nu)
      zhi == SABR_zhi(z, rho)
      FX == Times(V(F), V(X))
      omb == Minus(I(1), V(beta))
      lg == NpLog(Over(V(F), V(X)))
      numer1 == Times(Over(PowerI(omb, 2), I(24)),
                      Over(Times(V(alpha), V(alpha)), Power(FX, omb)))
      numer2 == Over(Times(Times(Times(Times(Lit(25, 100), V(rho)), V(beta)), V(nu)),
                           V(alpha)),
                     Power(FX, Over(omb, I(2))))
      numer3 == SABR_numer3(rho, nu)
      numer == Times(Times(V(alpha),
                           Plus(I(1), Times(Plus(Plus(numer1, numer2), numer3), I(T)))),
                     z)
      denom1 == Times(Over(PowerI(omb, 2), I(24)), PowerI(lg, 2))
      denom2 == Times(Over(PowerI(omb, 4), I(1920)), PowerI(lg, 4))
      denom == Times(Times(Power(FX, Over(omb, I(2))), Plus(Plus(I(1), denom1), denom2)),
                     zhi)
  IN Over(numer, denom)

SABR(F, K, T, alpha, beta, rho, nu) ==
  Fn("SABR", <<F, K, T, alpha, beta, rho, nu>>,
     IF SABRBranch(F, K) = "atm"
     THEN SABR_atm(F, T, alpha, beta, rho, nu)
     ELSE SABR_general(F, K, T, alpha, beta, rho, nu))

(***************************************************************************)
(* Black76 and IRR-settled swaptions                                       *)
(***************************************************************************)
\* d1 = (np.log(F/K) + (sigma**2)*T/2)/(sigma*np.sqrt(T))
Black_d1(F, K, sigma, T) ==
  Over(Plus(NpLog(Over(V(F), V(K))), Over(Times(PowerI(V(sigma), 2), I(T)), I(2))),
       Times(V(sigma), NpSqrt(I(T))))

\* d2 = (np.log(F/K) - (sigma**2)*T/2)/(sigma*np.sqrt(T))
Black_d2(F, K, sigma, T) ==
  Over(Minus(NpLog(Over(V(F), V(K))), Over(Times(PowerI(V(sigma), 2), I(T)), I(2))),
       Times(V(sigma), NpSqrt(I(T))))

\* F*norm.cdf(d1) - K*norm.cdf(d2)
Black76Call(F, K, sigma, T) ==
  Fn("Black76Call", <<F, K, sigma, T>>,
     Minus(Times(V(F), NormCdfT(Black_d1(F, K, sigma, T))),
           Times(V(K), NormCdfT(Black_d2(F, K, sigma, T)))))

\* the put with the signs of d1 and d2 not flipped
Black76Put_unflipped(F, K, sigma, T) ==
  Fn("Black76Put", <<F, K, sigma, T>>,
     Minus(Times(V(K), NormCdfT(Black_d2(F, K, sigma, T))),
           Times(V(F), NormCdfT(Black_d1(F, K, sigma, T)))))

\* K*norm.cdf(-d2) - F*norm.cdf(-d1)
Black76Put(F, K, sigma, T) ==
  Fn("Black76Put", <<F, K, sigma, T>>,
     Minus(Times(V(K), NormCdfT(NegT(Black_d2(F, K, sigma, T)))),
           Times(V(F), NormCdfT(NegT(Black_d1(F, K, sigma, T))))))

\* the payer swaption with the annuity taken at the strike
payer_swaption_at_strike(discount, F, K, sigma, T, m, N) ==
  Fn("payer_swaption", <<discount, F, K, sigma, T, m, N>>,
     Times(Times(V(discount), IRR_0(K, m, N)), Black76Call(F, K, sigma, T)))

\* discount * IRR_0(F, m, N) * Black76Call(F, K, sigma, T)
payer_swaption(discount, F, K, sigma, T, m, N) ==
  Fn("payer_swaption", <<discount, F, K, sigma, T, m, N>>,
     Times(Times(V(discount), IRR_0(F, m, N)), Black76Call(F, K, sigma, T)))

\* the receiver swaption without its discount factor
receiver_swaption_undiscounted(discount, F, K, sigma, T, m, N) ==
  Fn("receiver_swaption", <<discount, F, K, sigma, T, m, N>>,
     Times(IRR_0(F, m, N), Black76Put(F, K, sigma, T)))

\* discount * IRR_0(F, m, N) * Black76Put(F, K, sigma, T)
receiver_swaption(discount, F, K, sigma, T, m, N) ==
  Fn("receiver_swaption", <<discount, F, K, sigma, T, m, N>>,
     Times(Times(V(discount), IRR_0(F, m, N)), Black76Put(F, K, sigma, T)))

\* h_2(K, m, N) * payer_swaption(discount, F, K, sigma, T, m , N)
call_integrand(discount, F, K, sigma, T, m, N) ==
  Fn("call_integrand", <<discount, F, K, sigma, T, m, N>>,
     Times(h_2(K, m, N), payer_swaption(discount, F, K, sigma, T, m, N)))

\* h_2(K, m, N) * receiver_swaption(discount, F, K, sigma, T, m , N)
put_integrand(discount, F, K, sigma, T, m, N) ==
  Fn("put_integrand", <<discount, F, K, sigma, T, m, N>>,
     Times(h_2(K, m, N), receiver_swaption(discount, F, K, sigma, T, m, N)))

(***************************************************************************)
(* Call traces of a term                                                   *)
(***************************************************************************)
\* every call <<name, args>> made while evaluating t
RECURSIVE CallLog(_)
CallLog(t) ==
  CASE t[1] = "c" -> {}
    [] t[1] = "call" -> {<<t[2], t[3]>>} \cup CallLog(t[4])
    [] t[1] = "**i" -> CallLog(t[2])
    [] t[1] \in {"neg", "log", "sqrt", "cdf"} -> CallLog(t[2])
    [] OTHER -> CallLog(t[2]) \cup CallLog(t[3])

\* the call terms of the functions in names inside t
RECURSIVE SubCalls(_, _)
SubCalls(t, names) ==
  CASE t[1] = "c" -> {}
    [] t[1] = "call" -> (IF t[2] \in names THEN {t} ELSE {}) \cup SubCalls(t[4], names)
    [] t[1] = "**i" -> SubCalls(t[2], names)
    [] t[1] \in {"neg", "log", "sqrt", "cdf"} -> SubCalls(t[2], names)
    [] OTHER -> SubCalls(t[2], names) \cup SubCalls(t[3], names)

\* the names of the functions t calls itself, not through another call
RECURSIVE TopCalls(_)
TopCalls(t) ==
  CASE t[1] = "c" -> {}
    [] t[1] = "call" -> {t[2]}
    [] t[1] = "**i" -> TopCalls(t[2])
    [] t[1] \in {"neg", "log", "sqrt", "cdf"} -> TopCalls(t[2])
    [] OTHER -> TopCalls(t[2]) \cup TopCalls(t[3])

\* the calls made inside the calls of the functions in names
CallsWithin(t, names) == UNION {CallLog(c[4]) : c \in SubCalls(t, names)}

(***************************************************************************)
(* scipy.integrate.quad: a weighted sum of the integrand at nodes strictly *)
(* inside (a, b); the model uses NQuad equal panels and their midpoints.   *)
(***************************************************************************)
NQuad == 2

QuadNode(a, b, k) == Add(a, Mul(Sub(b, a), Rat(2 * k - 1, 2 * NQuad)))

QuadWeight(a, b) == Div(Sub(b, a), FromInt(NQuad))

(***************************************************************************)
(* The pricing cells                                                       *)
(***************************************************************************)
T == 5

N == 10

m == 2

beta == Rat(9, 10)

\* the upper integration limit 5000
U == FromInt(5000)

\* L = (0.04 ** (1/2)) ** 4
L == Ev(PowerI(Power(Lit(4, 100), Over(I(1), I(2))), 4))

VARIABLES discount, F, alpha, rho, nu, pc, i, I_put, I_call, v_0, I_call2, v_1,
          evals, boundary, call

vars == <<discount, F, alpha, rho, nu, pc, i, I_put, I_call, v_0, I_call2, v_1,
          evals, boundary, call>>

inputs == <<discount, F, alpha, rho, nu>>

\* market data read from the spreadsheets
DiscountSet == {Rat(9, 10), Rat(95, 100)}

ForwardSet == {L, Rat(3, 100), Rat(5, 100)}

AlphaSet == {Rat(15, 100), Rat(2, 10)}

RhoSet == {Rat(-4, 10), Rat(-5, 10)}

NuSet == {Rat(5, 10), Rat(3, 10)}

\* one volatility, taken at the forward, for every strike
sigma_at_forward(x) == SABR(F, F, T, alpha, beta, rho, nu)

\* SABR(F,x,T, alpha=alpha, beta=beta, rho=rho, nu=nu)
sigma_at(x) == SABR(F, x, T, alpha, beta, rho, nu)

\* the lower integral taking the payer integrand
put_lambda_payer(x) == call_integrand(discount, F, x, Ev(sigma_at(x)), T, m, N)

\* lambda x: put_integrand(discount, F, x, SABR(F,x,...), T, m , N)
put_lambda(x) == put_integrand(discount, F, x, Ev(sigma_at(x)), T, m, N)

\* lambda x: call_integrand(discount, F, x, SABR(F,x,...), T, m , N)
call_lambda(x) == call_integrand(discount, F, x, Ev(sigma_at(x)), T, m, N)

I_put_limits == <<Zero, F>>

I_call_limits == <<F, U>>

I_call2_limits == <<L, U>>

\* v_0 = discount * g_0(F) + I_put[0] + I_call[0]
v_0_value(Iput, Icall) == Plus(Plus(Times(V(discount), g_0(F)), V(Iput)), V(Icall))

\* h_1(F)*(payer_swaption(discount, F, F, sigma, T, m, N)
\*         - receiver_swaption(discount, F, F, sigma, T, m, N))
v_0_boundary(sigma) ==
  Times(h_1(F, m, N),
        Minus(payer_swaption(discount, F, F, sigma, T, m, N),
              receiver_swaption(discount, F, F, sigma, T, m, N)))

\* v_0 = discount * g_0(F) + h_1(F)*(payer_swaption(...) - receiver_swaption(...))
\*       + I_put + I_call
v_0_documented(Iput, Icall, sigma) ==
  Plus(Plus(Plus(Times(V(discount), g_0(F)), v_0_boundary(sigma)), V(Iput)), V(Icall))

\* the boundary term struck at the forward
boundary_strike_forward == F

\* the strike of the boundary term of v_1
boundary_strike == L

\* v_1 without its boundary term
v_1_value_tail(Icall2) == V(Icall2)

\* v_1 = h_1(L, m, N) * payer_swaption(discount, F, L, SABR(F,L,...), T, m, N) + I_call2[0]
v_1_value(Icall2) ==
  Plus(Times(h_1(boundary_strike, m, N),
             payer_swaption(discount, F, boundary_strike, Ev(sigma_at(boundary_strike)),
                            T, m, N)),
       V(Icall2))

\* one evaluation of an integrand by quad, with the calls it made
EvalRec(name, lim, k, x, sg, t) ==
  [quad |-> name, lo |-> lim[1], hi |-> lim[2], k |-> k, K |-> x,
   sabr |-> CallLog(sg), sigma |-> Ev(sg),
   integrand |-> t[2], args |-> t[3],
   weight |-> CallsWithin(t, {"h_2"}),
   swaption |-> {<<c[2], c[3]>> : c \in SubCalls(t, {"payer_swaption", "receiver_swaption"})},
   annuity |-> CallsWithin(t, {"payer_swaption", "receiver_swaption"}),
   value |-> Ev(t)]

NoCall == [fn |-> "none"]

Init ==
  /\ discount \in DiscountSet
  /\ F \in ForwardSet
  /\ alpha \in AlphaSet
  /\ rho \in RhoSet
  /\ nu \in NuSet
  /\ pc = "I_put"
  /\ i = 1
  /\ I_put = Zero
  /\ I_call = Zero
  /\ v_0 = Zero
  /\ I_call2 = Zero
  /\ v_1 = Zero
  /\ evals = {}
  /\ boundary = [K |-> Zero]
  /\ call = NoCall

\* quad evaluates the integrand at node i and adds its weighted value
QuadStep(name, lim, x, t, acc, next) ==
  /\ pc = name
  /\ evals' = evals \cup {EvalRec(name, lim, i, x, sigma_at(x), t)}
  /\ acc' = Add(acc, Mul(QuadWeight(lim[1], lim[2]), Ev(t)))
  /\ IF i < NQuad
     THEN i' = i + 1 /\ pc' = pc
     ELSE i' = 1 /\ pc' = next

\* I_put = quad(lambda x: put_integrand(...), 0.0, F)
EvalI_put ==
  LET x == QuadNode(I_put_limits[1], I_put_limits[2], i)
  IN /\ QuadStep("I_put", I_put_limits, x, put_lambda(x), I_put, "I_call")
     /\ UNCHANGED <<inputs, I_call, v_0, I_call2, v_1, boundary, call>>

\* I_call = quad(lambda x: call_integrand(...), F, 5000)
EvalI_call ==
  LET x == QuadNode(I_call_limits[1], I_call_limits[2], i)
  IN /\ QuadStep("I_call", I_call_limits, x, call_lambda(x), I_call, "v_0")
     /\ UNCHANGED <<inputs, I_put, v_0, I_call2, v_1, boundary, call>>

ComputeV0 ==
  /\ pc = "v_0"
  /\ v_0' = Ev(v_0_value(I_put, I_call))
  /\ pc' = "I_call2"
  /\ UNCHANGED <<inputs, i, I_put, I_call, I_call2, v_1, evals, boundary, call>>

\* I_call2 = quad(lambda x: call_integrand(...), L, 5000)
EvalI_call2 ==
  LET x == QuadNode(I_call2_limits[1], I_call2_limits[2], i)
  IN /\ QuadStep("I_call2", I_call2_limits, x, call_lambda(x), I_call2, "v_1")
     /\ UNCHANGED <<inputs, I_put, I_call, v_0, v_1, boundary, call>>

ComputeV1 ==
  /\ pc = "v_1"
  /\ v_1' = Ev(v_1_value(I_call2))
  /\ boundary' = [K |-> boundary_strike,
                  calls |-> CallLog(v_1_value(I_call2)),
                  direct |-> TopCalls(v_1_value(I_call2)),
                  sigma |-> Ev(sigma_at(boundary_strike)),
                  value |-> Ev(v_1_value(Zero))]
  /\ pc' = "done"
  /\ UNCHANGED <<inputs, i, I_put, I_call, v_0, I_call2, evals, call>>

Next ==
  \/ EvalI_put
  \/ EvalI_call
  \/ ComputeV0
  \/ EvalI_call2
  \/ ComputeV1

Spec == Init /\ [][Next]_vars

(***************************************************************************)
(* The library functions called on their own                               *)
(***************************************************************************)
\* the pricing cells are not running
Idle ==
  /\ discount = One
  /\ F = One
  /\ alpha = One
  /\ rho = Zero
  /\ nu = One
  /\ pc = "lib"
  /\ i = 1
  /\ I_put = Zero
  /\ I_call = Zero
  /\ v_0 = Zero
  /\ I_call2 = Zero
  /\ v_1 = Zero
  /\ evals = {}
  /\ boundary = [K |-> Zero]

InitLib == Idle /\ call = NoCall

engine == <<discount, F, alpha, rho, nu, pc, i, I_put, I_call, v_0, I_call2, v_1,
            evals, boundary>>

\* whether evaluating t takes a node with the given tag
RECURSIVE HasNode(_, _)
HasNode(t, tag) ==
  IF t[1] = tag THEN TRUE
  ELSE CASE t[1] = "c" -> FALSE
         [] t[1] = "call" -> HasNode(t[4], tag)
         [] t[1] = "**i" -> HasNode(t[2], tag)
         [] t[1] \in {"neg", "log", "sqrt", "cdf"} -> HasNode(t[2], tag)
         [] OTHER -> HasNode(t[2], tag) \/ HasNode(t[3], tag)

BlackFSet == {Rat(3, 100), Rat(5, 100), One, FromInt(100)}

BlackKSet == {Rat(75, 10000), Rat(3, 100), Rat(4, 100), FromInt(1250)}

BlackSigmaSet == {Rat(1, 10), Rat(25, 100), Rat(5, 10)}

BlackTSet == {1, 5, 10}

\* Black76Call and Black76Put on the same arguments
CallBlack76 ==
  /\ call = NoCall
  /\ \E f \in BlackFSet, k \in BlackKSet, s \in BlackSigmaSet, t \in BlackTSet :
       call' = [fn |-> "Black76", F |-> f, K |-> k, sigma |-> s, T |-> t,
                Call |-> Ev(Black76Call(f, k, s, t)),
                Put |-> Ev(Black76Put(f, k, s, t))]
  /\ UNCHANGED engine

NextBlack == CallBlack76

SpecBlack == InitLib /\ [][NextBlack]_vars

\* 2^-41, a forward below the tolerance 1e-12
Tiny == Scale(One, -41)

\* forward and strike: equal, apart, and either side of the tolerance
SabrFKSet == {<<Rat(3, 100), Rat(3, 100)>>, <<Rat(3, 100), Rat(4, 100)>>,
              <<Rat(3, 100), Rat(2, 100)>>, <<Rat(5, 100), Rat(3, 100)>>,
              <<Tiny, Tiny>>, <<Tiny, Scale(Tiny, -1)>>,
              <<Scale(Tiny, 2), Scale(Tiny, 1)>>, <<Scale(Tiny, 3), Scale(Tiny, 2)>>}

SabrAlphaSet == {Rat(125, 1000), Rat(2, 10)}

SabrBetaSet == {Rat(9, 10), One}

SabrRhoSet == {Rat(-875, 1000), Rat(-4, 10)}

SabrNuSet == {Rat(5, 10), FromInt(4)}

\* SABR(F, K, T, alpha, beta, rho, nu)
CallSABR ==
  /\ call = NoCall
  /\ \E fk \in SabrFKSet, a \in SabrAlphaSet, b \in SabrBetaSet,
        r \in SabrRhoSet, v \in SabrNuSet :
       call' = [fn |-> "SABR", F |-> fk[1], K |-> fk[2], T |-> T, alpha |-> a,
                beta |-> b, rho |-> r, nu |-> v,
                general |-> HasNode(SABR(fk[1], fk[2], T, a, b, r, v), "log"),
                result |-> Ev(SABR(fk[1], fk[2], T, a, b, r, v))]
  /\ UNCHANGED engine

NextSABR == CallSABR

SpecSABR == InitLib /\ [][NextSABR]_vars

MaxM == 4

MaxN == 4

IrrKSet == {Scale(One, -60), Rat(16, 10000), Rat(3, 100), Rat(5, 100), Rat(5, 10),
            FromInt(5), FromInt(1250), FromInt(3750)}

\* IRR_0(K, m, N)
CallIRR_0 ==
  /\ call = NoCall
  /\ \E k \in IrrKSet, mm \in 1..MaxM, nn \in 1..MaxN :
       call' = [fn |-> "IRR_0", K |-> k, m |-> mm, N |-> nn,
                result |-> Ev(IRR_0(k, mm, nn))]
  /\ UNCHANGED engine

NextIRR == CallIRR_0

SpecIRR == InitLib /\ [][NextIRR]_vars

MaxP == 4

MaxQ == 4

PayoffKSet == {Rat(16, 10000), Rat(3, 100), Rat(5, 100), Rat(5, 10), One, FromInt(5),
               FromInt(1250)}

\* g_0, g_1, g_2 and L for a caller that wants the exponents 1/p and 1/q
CallPayoff ==
  /\ call = NoCall
  /\ \E k \in PayoffKSet, p \in 1..MaxP, q \in 1..MaxQ :
       call' = [fn |-> "payoff", K |-> k, p |-> p, q |-> q,
                g_0 |-> Ev(g_0(k)), g_1 |-> Ev(g_1(k)), g_2 |-> Ev(g_2(k)), L |-> L]
  /\ UNCHANGED engine

NextPayoff == CallPayoff

SpecPayoff == InitLib /\ [][NextPayoff]_vars

(***************************************************************************)
(* Scenario 1 and scenario 2                                               *)
(***************************************************************************)
\* the evaluation number k of the integral name
EvalOf(name, k) == CHOOSE e \in evals : e.quad = name /\ e.k = k

\* what quad returns for the integral name from its first k evaluations
RECURSIVE SumEvals(_, _)
SumEvals(name, k) ==
  IF k = 0 THEN Zero
  ELSE Add(SumEvals(name, k - 1),
           Mul(Div(Sub(EvalOf(name, k).hi, EvalOf(name, k).lo), FromInt(NQuad)),
               EvalOf(name, k).value))

\* the swaption calls an evaluation made are one call of the function name
\* at the forward, the evaluation's strike and the volatility it was given
OneSwaption(e, name) ==
  e.swaption = {<<name, <<discount, F, e.K, e.args[4], T, m, N>>>>}

Threshold == PowInt(Sqrt(Rat(4, 100)), 4)

\* h_1(x, m, N) * payer_swaption(discount, F, x, SABR(F, x, ...), T, m, N)
BoundaryTerm(x) ==
  Mul(Ev(h_1(x, m, N)),
      Ev(payer_swaption(discount, F, x, Ev(SABR(F, x, T, alpha, beta, rho, nu)), T, m, N)))

\* C2: once v_1 is computed it is h_1(L) * payer_swaption(discount, F, L,
\* SABR(F, L, ...)) + I_call2, where I_call2 is quad's sum of call_integrand
\* from L to 5000; v_1 itself calls only h_1 and payer_swaption (no g_0 term,
\* no receiver swaption), and the boundary strike is the lower limit L.
C2_V1IsBoundaryPlusTail ==
  pc = "done" =>
    /\ v_1 = Add(BoundaryTerm(Threshold), I_call2)
    /\ I_call2 = SumEvals("I_call2", NQuad)
    /\ boundary.K = Threshold
    /\ boundary.direct = {"h_1", "payer_swaption"}
    /\ \A c \in boundary.calls : c[1] \notin {"receiver_swaption", "Black76Put"}
    /\ \A e \in evals :
         e.quad = "I_call2" =>
           /\ e.integrand = "call_integrand"
           /\ OneSwaption(e, "payer_swaption")
           /\ e.lo = boundary.K /\ e.hi = U
           /\ Lt(boundary.K, e.K) /\ Lt(e.K, U)

\* v_1 has been computed for a forward that is not the threshold
C2_Witness ==
  /\ pc = "done"
  /\ F # Threshold
  /\ v_1 # Zero
  /\ I_call2 # Zero
  /\ boundary.value # Zero

\* C3 as stated: when the forward equals the threshold L, v_1 is the
\* upper-tail integral of scenario 1 alone.
C3_V1IsUpperTailAtForward == (pc = "done" /\ F = Threshold) => v_1 = I_call

\* C3: when the forward equals the threshold L, the integral of v_1 is the
\* upper-tail integral I_call of scenario 1, and v_1 is that integral plus
\* the boundary term h_1(F) * payer_swaption(discount, F, F, SABR(F, F, ...)).
C3_V1IsBoundaryPlusUpperTail ==
  (pc = "done" /\ F = Threshold) =>
    /\ I_call2 = I_call
    /\ v_1 = Add(BoundaryTerm(F), I_call)

\* v_1 has been computed with the forward at the threshold, and the boundary
\* term is not zero
C3_Witness ==
  /\ pc = "done"
  /\ F = Threshold
  /\ I_call # Zero
  /\ BoundaryTerm(F) # Zero
  /\ v_1 # I_call

(***************************************************************************)
(* Black76                                                                 *)
(***************************************************************************)
\* the rounding tolerance of the parity: 8 units in the last place
ParityTol == Scale(One, 3 - Prec)

\* C4: for F, K, sigma, T > 0, Black76Call - Black76Put equals F - K up to
\* the rounding tolerance of the floats, relative to F + K.
C4_PutCallParity ==
  call.fn = "Black76" =>
    Le(Abs(Sub(Sub(call.Call, call.Put), Sub(call.F, call.K))),
       Mul(ParityTol, Add(call.F, call.K)))

\* both prices have been computed away from the money, and both are positive
C4_Witness ==
  /\ call.fn = "Black76"
  /\ call.F # call.K
  /\ IsPos(call.Call)
  /\ IsPos(call.Put)

(***************************************************************************)
(* SABR                                                                    *)
(***************************************************************************)
\* F > 0, K > 0, T > 0, 0 < beta <= 1, |rho| < 1, alpha > 0, nu > 0
ValidSABR(c) ==
  /\ IsPos(c.F) /\ IsPos(c.K) /\ c.T > 0
  /\ IsPos(c.beta) /\ Le(c.beta, One)
  /\ Lt(Abs(c.rho), One)
  /\ IsPos(c.alpha) /\ IsPos(c.nu)

\* C5 as stated: SABR returns a strictly positive volatility for every valid
\* input, in both branches.
C5_SABRPositive == (call.fn = "SABR" /\ ValidSABR(call)) => IsPos(call.result)

\* C6: every evaluation of an integrand is given the volatility
\* SABR(F, K, T, alpha, beta, rho, nu) of its own strike K, and so is the
\* boundary term of v_1 at L.
C6_SigmaAtSameStrike ==
  /\ \A e \in evals :
       /\ e.args[3] = e.K
       /\ e.args[4] = Ev(SABR(F, e.K, T, alpha, beta, rho, nu))
       /\ e.sabr = {<<"SABR", <<F, e.K, T, alpha, beta, rho, nu>>>>}
       /\ \A c \in e.annuity :
            c[1] \in {"Black76Call", "Black76Put"} => c[2] = <<F, e.K, e.args[4], T>>
  /\ pc = "done" =>
       \A c \in boundary.calls :
         /\ c[1] = "payer_swaption" =>
              /\ c[2][3] = boundary.K
              /\ c[2][4] = Ev(SABR(F, boundary.K, T, alpha, beta, rho, nu))
         /\ c[1] = "Black76Call" =>
              c[2] = <<F, boundary.K, Ev(SABR(F, boundary.K, T, alpha, beta, rho, nu)), T>>

\* all three integrals and the boundary term have been evaluated, at strikes
\* with different volatilities
C6_Witness ==
  /\ pc = "done"
  /\ \E e1 \in evals : \E e2 \in evals : e1.K # e2.K /\ e1.args[4] # e2.args[4]
  /\ \E e \in evals : e.args[4] # boundary.sigma

\* the calls of the IRR functions among the calls cs
IRRCalls(cs) == {c \in cs : c[1] \in {"IRR_0", "IRR_1", "IRR_2"}}

\* C7: in every evaluation of an integrand the swaption is
\* discount * IRR_0(F, m, N) * Black76Call/Put(F, K, sigma, T), its only IRR
\* call being IRR_0 at the forward F, while the weight h_2(K, m, N) calls
\* IRR_0, IRR_1 and IRR_2 at the strike K only.
C7_AnnuityAtForwardWeightAtStrike ==
  \A e \in evals :
    /\ IRRCalls(e.annuity) = {<<"IRR_0", <<F, m, N>>>>}
    /\ IRRCalls(e.weight) = {<<"IRR_0", <<e.K, m, N>>>>, <<"IRR_1", <<e.K, m, N>>>>,
                             <<"IRR_2", <<e.K, m, N>>>>}
    /\ e.value =
         Mul(Ev(h_2(e.K, m, N)),
             Mul(Mul(discount, Ev(IRR_0(F, m, N))),
                 IF e.integrand = "call_integrand"
                 THEN Ev(Black76Call(F, e.K, e.args[4], T))
                 ELSE Ev(Black76Put(F, e.K, e.args[4], T))))

\* a payer and a receiver swaption have been evaluated at strikes that are
\* not the forward
C7_Witness ==
  /\ \E e \in evals : e.integrand = "call_integrand" /\ e.K # F
  /\ \E e \in evals : e.integrand = "put_integrand" /\ e.K # F

\* C8: SABR takes the general (z, zhi) formula, the one that takes a
\* logarithm, exactly when |F - K| < 1e-12 is false; it never takes it with
\* K = F.
C8_BranchOnTolerance ==
  call.fn = "SABR" =>
    /\ call.general <=> ~Lt(Abs(Sub(call.F, call.K)), Eps)
    /\ call.general => call.F # call.K

\* SABR has taken the at-the-money form for a strike that is not the forward,
\* inside the tolerance
C8_Witness ==
  /\ call.fn = "SABR"
  /\ ~call.general
  /\ call.F # call.K

(***************************************************************************)
(* IRR and the payoff                                                      *)
(***************************************************************************)
\* C9 as stated: IRR_0(K, m, N) is strictly positive for every K > 0, m >= 1
\* and N >= 1.
C9_IRRPositive ==
  (call.fn = "IRR_0" /\ IsPos(call.K) /\ call.m >= 1 /\ call.N >= 1) =>
    IsPos(call.result)

\* K ** (1/p)
Root(x, p) == Pow(x, Div(One, FromInt(p)))

\* C10 as stated: for the exponents p and q the caller wants,
\* g(K) = K^(1/p) - 0.04^(1/q) and g'(K) = (1/p) * K^(1/p - 1).
C10_PayoffFollowsPQ ==
  call.fn = "payoff" =>
    /\ call.g_0 = Sub(Root(call.K, call.p), Root(Rat(4, 100), call.q))
    /\ call.g_1 = Mul(Div(One, FromInt(call.p)),
                      Pow(call.K, Sub(Div(One, FromInt(call.p)), One)))

\* C10: whatever exponents p and q the caller wants, g_0(K) is
\* K^(1/4) - 0.04^(1/2), g_1(K) is (1/4) * K^(-3/4), g_2(K) is
\* (-3/16) * K^(-7/4) and L is (0.04^(1/2))^4.
C10_PayoffFixedAtFourAndTwo ==
  call.fn = "payoff" =>
    /\ call.g_0 = Sub(Root(call.K, 4), Root(Rat(4, 100), 2))
    /\ call.g_1 = Mul(Rat(1, 4), Pow(call.K, Rat(-3, 4)))
    /\ call.g_2 = Mul(Rat(-3, 16), Pow(call.K, Rat(-7, 4)))
    /\ call.L = PowInt(Root(Rat(4, 100), 2), 4)

\* the payoff has been evaluated for a caller that wants other exponents
C10_Witness ==
  /\ call.fn = "payoff"
  /\ call.p # 4
  /\ call.q # 2
  /\ call.g_0 # Zero

(***************************************************************************)
(* The boundary term of scenario 1                                         *)
(***************************************************************************)
\* the volatility at the money that the swaptions of the boundary term share
SigmaATM == Ev(sigma_at(F))

\* the size of the terms v_0 adds
V0Scale == Add(Add(Abs(Mul(discount, Ev(g_0(F)))), Abs(I_put)), Abs(I_call))

\* C11: v_0 is computed without the boundary term of the documented
\* formula (it calls g_0 only, where the documented formula also calls h_1,
\* payer_swaption and receiver_swaption), and nothing is lost: struck at the
\* forward with one volatility the payer and the receiver swaption are equal
\* up to the rounding tolerance of the floats, and so v_0 equals the
\* documented formula up to that tolerance.
C11_DroppedBoundaryTermIsZero ==
  pc \in {"I_call2", "v_1", "done"} =>
    /\ TopCalls(v_0_value(I_put, I_call)) = {"g_0"}
    /\ TopCalls(v_0_documented(I_put, I_call, SigmaATM))
         = {"g_0", "h_1", "payer_swaption", "receiver_swaption"}
    /\ Le(Abs(Sub(Ev(payer_swaption(discount, F, F, SigmaATM, T, m, N)),
                  Ev(receiver_swaption(discount, F, F, SigmaATM, T, m, N)))),
          Mul(ParityTol, Ev(payer_swaption(discount, F, F, SigmaATM, T, m, N))))
    /\ Le(Abs(Sub(v_0, Ev(v_0_documented(I_put, I_call, SigmaATM)))),
          Mul(ParityTol, V0Scale))

\* v_0 has been computed where the factors of the boundary term, h_1(F) and
\* the payer swaption at the money, are both not zero
C11_Witness ==
  /\ pc = "I_call2"
  /\ v_0 # Zero
  /\ Ev(h_1(F, m, N)) # Zero
  /\ IsPos(Ev(payer_swaption(discount, F, F, SigmaATM, T, m, N)))

====
